---- MODULE Spec2Model ----
(***************************************************************************)
(* Model of the accelerometer pedometer (pedometer.c / pedometer.h):       *)
(* main's read loop, step_algo_preproc, step_algo_run and apply_filter.    *)
(*                                                                         *)
(* Numbers.  The program computes in single-precision floats; the model    *)
(* computes the same expressions in fixed point:                           *)
(*   - accelerations, filter outputs and amplitudes in 1/1000 m/s^2,       *)
(*   - filter coefficients in 1/1000,                                      *)
(*   - timestamps in ticks of 1/520 s (one sample interval is 5 ticks, so  *)
(*     0.2 s = 104 ticks and 1.5 s = 780 ticks are exact),                 *)
(*   - the average period in 1/1000 tick, frequencies in mHz.              *)
(* Every product stays below 2^31.                                         *)
(***************************************************************************)
EXTENDS Integers, Sequences, FiniteSets, TLC

(* ------------------------------ bounds -------------------------------- *)
\* Number of full frames (detector runs) of input that are explored.
MaxFrames == 8
\* Number of times the input may switch between moving and standing still.
MaxChanges == 1

(* ------------------------- units of the model ------------------------- *)
MILLI == 10^3
TICKS_PER_SAMPLE == 2 + 3

(* --------------------- pedometer.h configuration ---------------------- *)
SENSOR_SAMP_FREQ == 104
BUFF_FACTOR == 2
SAMP_BUFF_LEN == SENSOR_SAMP_FREQ \div BUFF_FACTOR
MAX_TC_SAMPLES == 20
TICKS_PER_SEC == TICKS_PER_SAMPLE * SENSOR_SAMP_FREQ
SENSOR_SAMP_INTVL == TICKS_PER_SEC \div SENSOR_SAMP_FREQ
\* 1E-6 is below the resolution of the model: x < -EPSILON is x < 0.
EPSILON == MILLI \div 10^6

\* motion_type_t
STATIC == 0
WALK == 1
HOP == 2
RUN == 3

(* ----------------------- step_algo_run constants ---------------------- *)
NO_DETECT_DUR_SEC == (2 * TICKS_PER_SEC) \div 10
CLOSE_TO_ZERO == (15 * MILLI) \div 10
MAX_TIME_PERIOD_SEC == (15 * TICKS_PER_SEC) \div 10
SMALL_AMP == 5 * MILLI
\* Mutant of LARGE_AMP: the large-amplitude threshold above a 20-unit swing.
LARGE_AMP_above20 == 25 * MILLI
LARGE_AMP == 15 * MILLI
SLOW_FREQ == (5 * MILLI) \div 10
FAST_FREQ == (22 * MILLI) \div 10

(* ------------------------------ helpers ------------------------------- *)
\* Round-to-nearest division, the model's stand-in for the float divisions
\* of the aggregation.
RoundDiv(n, d) == (2 * n + d) \div (2 * d)

\* Division rounded toward zero, the model's stand-in for the float
\* arithmetic of the filters: as in float, where a decaying response
\* underflows to 0, the response of a filter to a constant input settles
\* exactly instead of sticking at a rounding residue.
TruncDiv(n, d) == IF n >= 0 THEN n \div d ELSE -((-n) \div d)

\* fabs
fabs(x) == IF x < 0 THEN -x ELSE x

\* A C array of length len, all zero (static storage).
ZeroArray(len) == [i \in 1..len |-> 0]

(* ------------------------------ filters ------------------------------- *)
\* Filter history after main's initialisation (and as static storage).
FilterInit == [prev_in |-> 0, prev_prev_in |-> 0, prev_out |-> 0, prev_prev_out |-> 0]

\* 2nd order low pass, 3 Hz cut-off: coefficients in 1/1000.
lp_coef == [b0 |-> 7, b1 |-> 14, b2 |-> 7, a1 |-> -1746, a2 |-> 774]

\* 2nd order lead-lag, 4 Hz cut-off: coefficients in 1/1000.
ll_coef == [b0 |-> 2537, b1 |-> 0, b2 |-> -2537, a1 |-> -1664, a2 |-> 713]

\* Mutant of ll_TC_samples: a delay above MAX_TC_SAMPLES, not capped.
ll_TC_samples_above_cap == MAX_TC_SAMPLES + 5

\* timeconst_samp of the lead-lag filter: (unsigned)(104*0.06) + 1, capped.
ll_TC_samples ==
    LET tc == (SENSOR_SAMP_FREQ * 6) \div 100 + 1
    IN  IF tc > MAX_TC_SAMPLES THEN MAX_TC_SAMPLES ELSE tc

\* apply_filter: the new output and the shifted history.
apply_filter(coef, filt, in_data) ==
    LET out_data == TruncDiv(  coef.b0 * in_data
                             + coef.b1 * filt.prev_in
                             + coef.b2 * filt.prev_prev_in
                             - coef.a1 * filt.prev_out
                             - coef.a2 * filt.prev_prev_out, MILLI)
    IN  [out  |-> out_data,
         filt |-> [prev_in       |-> in_data,
                   prev_prev_in  |-> filt.prev_in,
                   prev_out      |-> out_data,
                   prev_prev_out |-> filt.prev_out]]

(* ------------------------------- input -------------------------------- *)
\* The recorded rows: ary = offset + amp * sin(2 pi f t) while the wearer
\* moves and ary = offset while standing still, f = step/2 Hz.  The other
\* six columns are read and passed on but never used by the core.
Offsets == {-9810, 9810}
\* amp (1/1000 m/s^2) and step (f = step/2 Hz): standing still; the tiny,
\* small, medium and large swing at 1.5 Hz; medium and large at 2.5 Hz;
\* large at 6 Hz (extrema closer than the detector's dead time).
Gaits == {[amp |-> 0, step |-> 0],
          [amp |-> 500, step |-> 3], [amp |-> 2500, step |-> 3],
          [amp |-> 5000, step |-> 3], [amp |-> 10000, step |-> 3],
          [amp |-> 5000, step |-> 5], [amp |-> 10000, step |-> 5],
          [amp |-> 10000, step |-> 12]}
Waves == {[offset |-> o, amp |-> g.amp, step |-> g.step] : o \in Offsets, g \in Gaits}

\* amp * sin(pi * u / 104) for the phase u in 1/208 of a cycle (Bhaskara's
\* rational approximation, error below 0.2 percent of amp).
Sine(amp, u) ==
    LET half == SENSOR_SAMP_FREQ
        ph   == u % (2 * half)
        h    == IF ph < half THEN ph ELSE ph - half
        p    == h * (half - h)
        b    == (16 * p * amp) \div (5 * half * half - 4 * p)
    IN  IF ph < half THEN b ELSE -b

\* The ary column of row number k (k = 0 for the first data row).
InputAry(w, isMoving, k) ==
    IF isMoving THEN w.offset + Sine(w.amp, w.step * k) ELSE w.offset

(* ------------------------------- state -------------------------------- *)
\* The columns of a data row the algorithm is handed but does not use
\* (x and z acceleration, the three gyroscope axes), in 1/1000.
ZeroRow == [arx |-> 0, arz |-> 0, grx |-> 0, gry |-> 0, grz |-> 0]
Channels ==
    {ZeroRow,
     [arx |-> 1500, arz |-> -2300, grx |-> 10, gry |-> -20, grz |-> 30],
     [arx |-> -9810, arz |-> 20000, grx |-> -500, gry |-> 500, grz |-> 0]}
ChannelWaves ==
    {[offset |-> 9810, amp |-> 10000, step |-> 3],
     [offset |-> -9810, amp |-> 5000, step |-> 5]}

VARIABLES
    pc,                 \* main: "open", "skip", "loop" or "exit"
    exit_code,          \* argument of exit(), -1 while running
    out_header,         \* the output header line has been written
    summary,            \* the summary has been printed
    skip_lines,         \* main's skip_lines: header lines still to skip
    wave, moving, changes,      \* the input file's content
    timestamp,          \* main's timestamp
    step_type,          \* main's step_type: the class name printed in the row
    line,               \* main's arx, arz, grx, gry, grz (the line last read)
    lp_filter_y, ll_filter_y,   \* filter histories
    AccBuff,            \* rows CHY and CHZ+1 (timestamps) of AccBuff
    count,              \* step_algo_preproc's static count
    run_step_algo,      \* main's run_step_algo (last return value of preproc)
    step_algo_output,   \* algo_out_t
    num_steps_walk, num_steps_run, num_steps_hop,
    prev_amp_est, prev_freq_est, amp_est_hold, freq_est_hold,
    prevAccDer, AccFilt, TimeStamps, AccDer,    \* statics of step_algo_run
    \* history variables (no effect on the program's state)
    commits,            \* every committed extremum: kind, ts, val, frame index
                        \* i, period contribution, number of the run
    last,               \* locals of the latest detector run at its end, the
                        \* estimates before the hold test, the divisors used,
                        \* the array indices accessed
    runs,               \* number of detector runs so far
    quiet,              \* consecutive runs without min / without extremum
    recent,             \* the last SAMP_BUFF_LEN smoothed samples, in order
    swing,              \* largest local peak and smallest local trough seen
    stream              \* a detector fed sample by sample, without frames

mainVars == <<pc, exit_code, out_header, summary, skip_lines>>
inputVars == <<wave, moving, changes>>
preprocVars == <<timestamp, step_type, line, lp_filter_y, AccBuff, count, run_step_algo>>
runVars == <<ll_filter_y, step_algo_output, num_steps_walk, num_steps_run,
             num_steps_hop, prev_amp_est, prev_freq_est, amp_est_hold,
             freq_est_hold, prevAccDer, AccFilt, TimeStamps, AccDer>>
histVars == <<commits, last, runs, quiet, recent, swing, stream>>
vars == <<mainVars, inputVars, preprocVars, runVars, histVars>>

\* Number of data rows processed so far.
NumSamples == timestamp \div SENSOR_SAMP_INTVL

(* --------------------------- step_algo_run ---------------------------- *)
\* First loop: the derivative of the frame, AccDer[i] = apply_filter(&ll_filter_y,
\* AccBuff[CHY][i]) for i = 0 .. SAMP_BUFF_LEN-1, threading the filter history.
RECURSIVE DerLoop(_, _, _, _)
DerLoop(i, filt, buffY, der) ==
    IF i = SAMP_BUFF_LEN THEN [filt |-> filt, AccDer |-> der]
    ELSE LET r    == apply_filter(ll_coef, filt, buffY[i + 1])
             der1 == Append(der, r.out)
         IN  \* (the test evaluates this iteration before the next is entered)
             IF Len(der1) = i + 1 THEN DerLoop(i + 1, r.filt, buffY, der1)
             ELSE [filt |-> r.filt, AccDer |-> der1]

\* The index of AccFilt and TimeStamps that receives the frame's sample i
\* (lines 285-286).
ExtWriteIndex(i) == ll_TC_samples + i

\* The index of the frame buffer that the tail save reads for entry i
\* (lines 377-378).
TailReadIndex(i) == SAMP_BUFF_LEN - ll_TC_samples + i

\* First loop: the extended buffers.  Entries 0 .. TC_samples-1 keep what the
\* previous run saved, entries TC_samples + i receive the frame, the rest of
\* the static array is left as it is.
ExtendBuffer(ext, row) ==
    [j \in 1..(SAMP_BUFF_LEN + MAX_TC_SAMPLES) |->
        IF j - 1 >= ExtWriteIndex(0) /\ j - 1 <= ExtWriteIndex(SAMP_BUFF_LEN - 1)
        THEN row[j - ExtWriteIndex(0)] ELSE ext[j]]

\* Mutant of SaveTail: the first TC_samples of the frame are saved.
SaveTail_head(ext, row) ==
    [j \in 1..(SAMP_BUFF_LEN + MAX_TC_SAMPLES) |->
        IF j <= ll_TC_samples THEN row[j] ELSE ext[j]]

\* "Save the last TC_samples for next run": entries 0 .. TC_samples-1 are
\* overwritten from the end of the frame buffer.
SaveTail(ext, row) ==
    [j \in 1..(SAMP_BUFF_LEN + MAX_TC_SAMPLES) |->
        IF j <= ll_TC_samples THEN row[TailReadIndex(j - 1) + 1]
        ELSE ext[j]]

\* Mutant of DeadTimePassed: any later timestamp passes.
DeadTimePassed_any(ts, prev_ts) == ts - prev_ts > 0

\* "Avoid searching very close to already found max (min) value".
DeadTimePassed(ts, prev_ts) == ts - prev_ts > NO_DETECT_DUR_SEC

\* Mutant of ClampPrevTs: the difference is clamped to a larger value.
ClampPrevTs_wide(new_ts, prev_ts) ==
    IF new_ts > prev_ts + MAX_TIME_PERIOD_SEC
    THEN new_ts - MAX_TIME_PERIOD_SEC - NO_DETECT_DUR_SEC ELSE prev_ts

\* "Clamp diff between new_ts and prev_ts": the value prev_ts has afterwards.
ClampPrevTs(new_ts, prev_ts) ==
    IF new_ts > prev_ts + MAX_TIME_PERIOD_SEC
    THEN new_ts - MAX_TIME_PERIOD_SEC ELSE prev_ts

\* Mutant of ExtIndex: the current frame's sample at the same index.
ExtIndex_frame(i) == ll_TC_samples + i

\* The index into the extended buffers AccFilt and TimeStamps that the
\* detector reads at frame index i (lines 299-302, 309-310, 323-325, 331-333).
ExtIndex(i) == i

\* Mutant of FallingZC: no dead-band around zero.
FallingZC_noBand(cur, prev) == cur <= 0 /\ prev >= 0

\* The derivative crosses zero downwards: AccDer[i] < -EPSILON and
\* prevAccDer >= 0.
FallingZC(cur, prev) == cur < -EPSILON /\ prev >= 0

\* Mutant of RisingZC: no dead-band around zero.
RisingZC_noBand(cur, prev) == cur >= 0 /\ prev <= 0

\* The derivative crosses zero upwards: AccDer[i] > EPSILON and
\* prevAccDer <= 0.
RisingZC(cur, prev) == cur > EPSILON /\ prev <= 0

\* The test that commits a maximum: not "very close to prev min value".
MaxAccepted(new_max_val, prev_min_val) == new_max_val - prev_min_val > CLOSE_TO_ZERO

\* The test that commits a minimum: not "very close to prev max value".
MinAccepted(prev_max_val, new_min_val) == prev_max_val - new_min_val > CLOSE_TO_ZERO

\* Falling zero crossing of the derivative at index i, searching a maximum.
MaxSearch(d, i, der, flt, tss) ==
    IF /\ FallingZC(der[i + 1], d.prevAccDer)
       /\ DeadTimePassed(tss[ExtIndex(i) + 1], d.prev_max_ts)
       /\ fabs(flt[ExtIndex(i) + 1]) > CLOSE_TO_ZERO
    THEN LET new_max_val == flt[ExtIndex(i) + 1]
             new_max_ts  == tss[ExtIndex(i) + 1]
             clamped     == ClampPrevTs(new_max_ts, d.prev_max_ts)
         IN  IF MaxAccepted(new_max_val, d.prev_min_val)
             THEN [d EXCEPT !.avg_time_period = @ + (new_max_ts - clamped),
                            !.avg_max_val = @ + new_max_val,
                            !.count_max_det = @ + 1,
                            !.prev_max_ts = new_max_ts,
                            !.prev_max_val = new_max_val,
                            !.commits = Append(@, [kind |-> "max",
                                                   ts |-> new_max_ts,
                                                   val |-> new_max_val,
                                                   i |-> i,
                                                   period |-> new_max_ts - clamped])]
             ELSE [d EXCEPT !.prev_max_ts = clamped]
    ELSE d

\* Rising zero crossing of the derivative at index i, searching a minimum.
MinSearch(d, i, der, flt, tss) ==
    IF /\ RisingZC(der[i + 1], d.prevAccDer)
       /\ DeadTimePassed(tss[ExtIndex(i) + 1], d.prev_min_ts)
    THEN LET new_min_val == flt[ExtIndex(i) + 1]
             new_min_ts  == tss[ExtIndex(i) + 1]
             clamped     == ClampPrevTs(new_min_ts, d.prev_min_ts)
         IN  IF MinAccepted(d.prev_max_val, new_min_val)
             THEN [d EXCEPT !.avg_time_period = @ + (new_min_ts - clamped),
                            !.avg_min_val = @ + new_min_val,
                            !.amp_est = @ + (d.prev_max_val - new_min_val),
                            !.count_min_det = @ + 1,
                            !.prev_min_ts = new_min_ts,
                            !.prev_min_val = new_min_val,
                            !.commits = Append(@, [kind |-> "min",
                                                   ts |-> new_min_ts,
                                                   val |-> new_min_val,
                                                   i |-> i,
                                                   period |-> new_min_ts - clamped])]
             ELSE [d EXCEPT !.prev_min_ts = clamped]
    ELSE d

\* The search mode of the detector: a minimum is searched iff the last
\* maximum is later than the last minimum.
MinSearchMode(prev_max_ts, prev_min_ts) == ~(prev_max_ts <= prev_min_ts)

\* Second loop, for i = 0 .. SAMP_BUFF_LEN-1 with delta = 1.
RECURSIVE DetectLoop(_, _, _, _, _)
DetectLoop(i, d, der, flt, tss) ==
    IF i = SAMP_BUFF_LEN THEN d
    ELSE LET d1 == IF i >= 1 THEN [d EXCEPT !.prevAccDer = der[i]] ELSE d
             d2 == IF MinSearchMode(d1.prev_max_ts, d1.prev_min_ts)
                   THEN MinSearch(d1, i, der, flt, tss)
                   ELSE MaxSearch(d1, i, der, flt, tss)
         IN  \* (the test evaluates this iteration before the next is entered)
             IF d2.count_max_det >= 0 THEN DetectLoop(i + 1, d2, der, flt, tss)
             ELSE d2

\* Mutant of HoldExpired: the estimate is dropped one run early.
HoldExpired_early(hold) == hold >= BUFF_FACTOR

\* Mutant of HoldExpired: the estimate is dropped one run late.
HoldExpired_late(hold) == hold > BUFF_FACTOR + 1

\* The hold counter after a run: reset by a fresh estimate, else one more;
\* above BUFF_FACTOR it is reset and the estimate is forced to 0.
HoldExpired(hold) == hold > BUFF_FACTOR

\* A float division n / d.  A zero divisor gives an infinity or a NaN in
\* float; the model goes on with 0 (the divisors of a run are recorded).
FloatDiv(n, d) == IF d = 0 THEN 0 ELSE RoundDiv(n, d)

\* Mutant of AmpGuard: the sum of swings is divided whatever the count.
AmpGuard_always(count_min_det) == count_min_det >= 0

\* "if (count_min_det > 0)": the mean swing is computed.
AmpGuard(count_min_det) == count_min_det > 0

\* "if (count_max_det + count_min_det > 0)": the mean period is computed.
PeriodGuard(count_det) == count_det > 0

\* "if (avg_time_period > EPSILON)": the frequency is computed.
FreqGuard(avg) == avg > EPSILON

\* amp_est and amp_est_hold at the end of the run; raw is amp_est before
\* the hold test.
AmpEstimate(d, prevEst, hold) ==
    LET fresh == AmpGuard(d.count_min_det)
        est == IF fresh THEN FloatDiv(d.amp_est, d.count_min_det) ELSE prevEst
        h   == IF fresh THEN 0 ELSE hold + 1
        div == IF fresh THEN <<d.count_min_det>> ELSE <<>>
    IN  IF HoldExpired(h) THEN [est |-> 0, hold |-> 0, raw |-> est, divisors |-> div]
        ELSE [est |-> est, hold |-> h, raw |-> est, divisors |-> div]

\* avg_time_period after the division, in 1/1000 tick.
AvgTimePeriod(d) ==
    IF PeriodGuard(d.count_max_det + d.count_min_det)
    THEN FloatDiv(d.avg_time_period * MILLI, d.count_max_det + d.count_min_det)
    ELSE d.avg_time_period * MILLI

\* freq_est (mHz) and freq_est_hold at the end of the run; raw is freq_est
\* before the hold test.
FreqEstimate(d, prevEst, hold) ==
    LET avg == AvgTimePeriod(d)
        fresh == FreqGuard(avg)
        est == IF fresh THEN FloatDiv(TICKS_PER_SEC * MILLI * MILLI, avg) ELSE prevEst
        h   == IF fresh THEN 0 ELSE hold + 1
        div == (IF PeriodGuard(d.count_max_det + d.count_min_det)
                THEN <<d.count_max_det + d.count_min_det>> ELSE <<>>)
               \o (IF fresh THEN <<avg>> ELSE <<>>)
    IN  IF HoldExpired(h) THEN [est |-> 0, hold |-> 0, raw |-> est, divisors |-> div]
        ELSE [est |-> est, hold |-> h, raw |-> est, divisors |-> div]

\* Mutant of Classify: every small amplitude is taken for standing still.
Classify_smallIsStatic(amp_est, freq_est) ==
    IF amp_est <= SMALL_AMP THEN STATIC
    ELSE IF amp_est >= LARGE_AMP
         THEN (IF freq_est >= FAST_FREQ THEN RUN ELSE HOP)
         ELSE (IF freq_est >= FAST_FREQ THEN RUN ELSE WALK)

\* Mutant of Classify: the two branches of the medium amplitudes swapped.
Classify_midSwapped(amp_est, freq_est) ==
    IF amp_est <= SMALL_AMP
    THEN (IF freq_est <= SLOW_FREQ THEN STATIC ELSE WALK)
    ELSE IF amp_est >= LARGE_AMP
         THEN (IF freq_est >= FAST_FREQ THEN RUN ELSE HOP)
         ELSE (IF freq_est >= FAST_FREQ THEN WALK ELSE RUN)

\* The decision tree that sets step_type.
Classify(amp_est, freq_est) ==
    IF amp_est <= SMALL_AMP
    THEN (IF freq_est <= SLOW_FREQ THEN STATIC ELSE WALK)
    ELSE IF amp_est >= LARGE_AMP
         THEN (IF freq_est >= FAST_FREQ THEN RUN ELSE HOP)
         ELSE (IF freq_est >= FAST_FREQ THEN RUN ELSE WALK)

\* What the branch that set step_type to type adds to the counter of class.
StepsAdded(type, class, count_min_det) ==
    IF type = class /\ type # STATIC THEN count_min_det ELSE 0

\* Mutant of Accumulate: the counter is assigned instead of added to.
Accumulate_assign(counter, added) == added

\* counter += added (step_count and the three per-class counters).
Accumulate(counter, added) == counter + added

\* The loop state at the start of the second loop.
DetectInit(out, carriedDer) ==
    [prev_max_val |-> out.prev_max, prev_max_ts |-> out.prev_max_ts,
     prev_min_val |-> out.prev_min, prev_min_ts |-> out.prev_min_ts,
     prevAccDer |-> carriedDer,
     avg_max_val |-> 0, avg_min_val |-> 0, avg_time_period |-> 0,
     amp_est |-> 0, count_max_det |-> 0, count_min_det |-> 0,
     commits |-> <<>>]

\* The smallest and the largest element of the set S of indices.
Span(S) ==
    [lo |-> CHOOSE x \in S : \A y \in S : x <= y,
     hi |-> CHOOSE x \in S : \A y \in S : x >= y]

\* The indices (from 0, as in the C code) at which a run of step_algo_run
\* reads or writes each array: the first loop (lines 280-287), the second
\* loop for every i it can reach (lines 291-344), the tail save (lines
\* 375-379) and line 381.
Accessed ==
    LET frame == 0..(SAMP_BUFF_LEN - 1)
        tail  == 0..(ll_TC_samples - 1)
    IN  [AccBuff |-> Span(frame \cup { TailReadIndex(i) : i \in tail }),
         AccFilt |-> Span({ ExtWriteIndex(i) : i \in frame }
                          \cup { ExtIndex(i) : i \in frame } \cup tail),
         AccDer  |-> Span(frame \cup { i - 1 : i \in frame \ {0} })]

\* step_algo_run on the full frame buffer buff: the new values of what it
\* writes (the caller's output struct, the three counters, its statics).
StepAlgoRun(buff) ==
    LET dl    == DerLoop(0, ll_filter_y, buff.y, <<>>)
        flt   == ExtendBuffer(AccFilt, buff.y)
        tss   == ExtendBuffer(TimeStamps, buff.ts)
        d     == DetectLoop(0, DetectInit(step_algo_output, prevAccDer),
                            dl.AccDer, flt, tss)
        amp   == AmpEstimate(d, prev_amp_est, amp_est_hold)
        freq  == FreqEstimate(d, prev_freq_est, freq_est_hold)
        type  == Classify(amp.est, freq.est)
    IN  [ll_filter_y |-> dl.filt,
         AccDer |-> dl.AccDer,
         AccFilt |-> SaveTail(flt, buff.y),
         TimeStamps |-> SaveTail(tss, buff.ts),
         prevAccDer |-> dl.AccDer[SAMP_BUFF_LEN],
         prev_amp_est |-> amp.est,
         prev_freq_est |-> freq.est,
         amp_est_hold |-> amp.hold,
         freq_est_hold |-> freq.hold,
         step_algo_output |->
             [step_count  |-> Accumulate(step_algo_output.step_count, d.count_min_det),
              step_type   |-> type,
              prev_max    |-> d.prev_max_val,
              prev_max_ts |-> d.prev_max_ts,
              prev_min    |-> d.prev_min_val,
              prev_min_ts |-> d.prev_min_ts],
         num_steps_walk |-> Accumulate(num_steps_walk, StepsAdded(type, WALK, d.count_min_det)),
         num_steps_run  |-> Accumulate(num_steps_run, StepsAdded(type, RUN, d.count_min_det)),
         num_steps_hop  |-> Accumulate(num_steps_hop, StepsAdded(type, HOP, d.count_min_det)),
         \* for the history variables
         commits |-> d.commits,
         locals  |-> [count_max_det |-> d.count_max_det,
                      count_min_det |-> d.count_min_det,
                      amp_est |-> amp.est, freq_est |-> freq.est,
                      avg_time_period |-> AvgTimePeriod(d),
                      amp_raw |-> amp.raw, freq_raw |-> freq.raw,
                      divisors |-> amp.divisors \o freq.divisors,
                      accessed |-> Accessed]]

(* ------------------------- step_algo_preproc -------------------------- *)
\* The slot of the frame buffer that receives the sample.
WriteIndex(cnt) == cnt

\* Mutant of NextCount: the full buffer is noticed one sample late.
NextCount_late(cnt) ==
    IF cnt + 1 > SAMP_BUFF_LEN THEN [count |-> 0, ret_val |-> 1]
    ELSE [count |-> cnt + 1, ret_val |-> 0]

\* The fill count and the return value after the sample is stored.
NextCount(cnt) ==
    IF cnt + 1 = SAMP_BUFF_LEN THEN [count |-> 0, ret_val |-> 1]
    ELSE [count |-> cnt + 1, ret_val |-> 0]

\* Mutant of step_algo_preproc: the x axis is added to the filtered channel.
step_algo_preproc_sumAxes(ts, arx, ary, arz, grx, gry, grz) ==
    LET f == apply_filter(lp_coef, lp_filter_y, ary + arx)
        c == NextCount(count)
    IN  [lp_filter_y |-> f.filt,
         ary_flt |-> f.out,
         AccBuff |-> [y  |-> [AccBuff.y EXCEPT ![WriteIndex(count) + 1] = f.out],
                      ts |-> [AccBuff.ts EXCEPT ![WriteIndex(count) + 1] = ts]],
         count |-> c.count,
         ret_val |-> c.ret_val]

\* step_algo_preproc(ts, arx, ary, arz, grx, gry, grz): filter, store, count.
step_algo_preproc(ts, arx, ary, arz, grx, gry, grz) ==
    LET f == apply_filter(lp_coef, lp_filter_y, ary)
        c == NextCount(count)
    IN  [lp_filter_y |-> f.filt,
         ary_flt |-> f.out,
         AccBuff |-> [y  |-> [AccBuff.y EXCEPT ![WriteIndex(count) + 1] = f.out],
                      ts |-> [AccBuff.ts EXCEPT ![WriteIndex(count) + 1] = ts]],
         count |-> c.count,
         ret_val |-> c.ret_val]

(* ------------------------- history variables -------------------------- *)
\* Kind, value and timestamp of the commits cs.
Extrema(cs) ==
    [k \in 1..Len(cs) |-> [kind |-> cs[k].kind, val |-> cs[k].val, ts |-> cs[k].ts]]

\* A detector that scans the whole signal as one sliding window: it keeps
\* the last ll_TC_samples (smoothed sample, timestamp) pairs, all 0 before
\* the first sample, the derivative filter's history, the previous
\* derivative and the last extrema, and has no frame buffer.
StreamInit ==
    [ll |-> FilterInit, prevDer |-> 0,
     window |-> [j \in 1..ll_TC_samples |-> [v |-> 0, t |-> 0]],
     prev_max |-> 0, prev_max_ts |-> 0, prev_min |-> 0, prev_min_ts |-> 0,
     step_count |-> 0, commits |-> <<>>]

\* The sliding-window detector takes the smoothed sample s with timestamp ts:
\* one derivative sample, one zero-crossing test against the sample
\* ll_TC_samples earlier.
StreamStep(st, s, ts) ==
    LET f    == apply_filter(ll_coef, st.ll, s)
        d0   == DetectInit(st, st.prevDer)
        win  == Append(st.window, [v |-> s, t |-> ts])
        flt  == [j \in 1..Len(win) |-> win[j].v]
        tss  == [j \in 1..Len(win) |-> win[j].t]
        d1   == IF MinSearchMode(d0.prev_max_ts, d0.prev_min_ts)
                THEN MinSearch(d0, 0, <<f.out>>, flt, tss)
                ELSE MaxSearch(d0, 0, <<f.out>>, flt, tss)
    IN  [ll |-> f.filt, prevDer |-> f.out,
         window |-> Tail(win),
         prev_max |-> d1.prev_max_val, prev_max_ts |-> d1.prev_max_ts,
         prev_min |-> d1.prev_min_val, prev_min_ts |-> d1.prev_min_ts,
         step_count |-> st.step_count + d1.count_min_det,
         commits |-> st.commits \o Extrema(d1.commits)]

\* The commits cs of one run, each with the number n of the run.
Stamp(cs, n) ==
    [k \in 1..Len(cs) |->
        [kind |-> cs[k].kind, ts |-> cs[k].ts, val |-> cs[k].val,
         i |-> cs[k].i, period |-> cs[k].period, run |-> n]]

\* The window of the last SAMP_BUFF_LEN smoothed samples.
Slide(win, s) ==
    IF Len(win) < SAMP_BUFF_LEN THEN Append(win, s) ELSE Append(Tail(win), s)

\* Local peaks and troughs of the smoothed signal: the sample before s is a
\* peak if it is not below its predecessor and above s (trough: mirrored).
TrackSwing(sw, n, pp, p, s) ==
    LET isPeak   == n >= 2 /\ pp <= p /\ p > s
        isTrough == n >= 2 /\ pp >= p /\ p < s
    IN  [hasPeak   |-> sw.hasPeak \/ isPeak,
         hi        |-> IF isPeak /\ (~sw.hasPeak \/ p > sw.hi) THEN p ELSE sw.hi,
         hasTrough |-> sw.hasTrough \/ isTrough,
         lo        |-> IF isTrough /\ (~sw.hasTrough \/ p < sw.lo) THEN p ELSE sw.lo]

\* Largest peak minus smallest trough of the smoothed signal so far.
Swing == IF swing.hasPeak /\ swing.hasTrough THEN swing.hi - swing.lo ELSE 0

\* Consecutive runs without a committed minimum / without any committed
\* extremum, and the estimates of the last run that had one.
TrackQuiet(q, loc) ==
    [noMin    |-> IF loc.count_min_det > 0 THEN 0 ELSE q.noMin + 1,
     hadMin   |-> q.hadMin \/ loc.count_min_det > 0,
     heldAmp  |-> IF loc.count_min_det > 0 THEN loc.amp_est ELSE q.heldAmp,
     noExt    |-> IF loc.count_max_det + loc.count_min_det > 0 THEN 0 ELSE q.noExt + 1,
     hadExt   |-> q.hadExt \/ loc.count_max_det + loc.count_min_det > 0,
     heldFreq |-> IF loc.count_max_det + loc.count_min_det > 0
                  THEN loc.freq_est ELSE q.heldFreq]

(* ------------------------------- main --------------------------------- *)
Init ==
    /\ pc = "open" /\ exit_code = -1 /\ out_header = FALSE /\ summary = FALSE
    /\ skip_lines = 2
    /\ wave \in Waves
    /\ moving = TRUE
    /\ changes = 0
    /\ timestamp = 0
    /\ line = ZeroRow
    /\ step_type = "indeterminate"
    /\ lp_filter_y = FilterInit /\ ll_filter_y = FilterInit
    /\ AccBuff = [y |-> ZeroArray(SAMP_BUFF_LEN), ts |-> ZeroArray(SAMP_BUFF_LEN)]
    /\ count = 0 /\ run_step_algo = 0
    /\ step_algo_output = [step_count |-> 0, step_type |-> STATIC,
                           prev_max |-> 0, prev_max_ts |-> 0,
                           prev_min |-> 0, prev_min_ts |-> 0]
    /\ num_steps_walk = 0 /\ num_steps_run = 0 /\ num_steps_hop = 0
    /\ prev_amp_est = 0 /\ prev_freq_est = 0
    /\ amp_est_hold = 0 /\ freq_est_hold = 0
    /\ prevAccDer = 0
    /\ AccFilt = ZeroArray(SAMP_BUFF_LEN + MAX_TC_SAMPLES)
    /\ TimeStamps = ZeroArray(SAMP_BUFF_LEN + MAX_TC_SAMPLES)
    /\ AccDer = ZeroArray(SAMP_BUFF_LEN)
    /\ commits = <<>>
    /\ last = [count_max_det |-> 0, count_min_det |-> 0, amp_est |-> 0,
               freq_est |-> 0, avg_time_period |-> 0,
               amp_raw |-> 0, freq_raw |-> 0, divisors |-> <<>>,
               accessed |-> [AccBuff |-> [lo |-> 0, hi |-> 0],
                             AccFilt |-> [lo |-> 0, hi |-> 0],
                             AccDer |-> [lo |-> 0, hi |-> 0]]]
    /\ runs = 0
    /\ quiet = [noMin |-> 0, hadMin |-> FALSE, heldAmp |-> 0,
                noExt |-> 0, hadExt |-> FALSE, heldFreq |-> 0]
    /\ recent = <<>>
    /\ swing = [hasPeak |-> FALSE, hi |-> 0, hasTrough |-> FALSE, lo |-> 0]
    /\ stream = StreamInit

\* argc check and the two fopen calls; then the filter and output structs
\* are initialised (to the values static storage already has).
OpenFiles ==
    /\ pc = "open"
    /\ \E argc_ok \in BOOLEAN, fpin_ok \in BOOLEAN, fpout_ok \in BOOLEAN :
          IF argc_ok /\ fpin_ok /\ fpout_ok
          THEN pc' = "skip" /\ exit_code' = exit_code
          ELSE pc' = "exit" /\ exit_code' = 1
    /\ UNCHANGED <<out_header, summary, skip_lines, inputVars, preprocVars,
                   runVars, histVars>>

\* Mutant of SkipHeader: the output header is written before the check.
SkipHeader_headerFirst ==
    /\ pc = "skip"
    /\ \E lines \in 0..2 :
          /\ skip_lines' = skip_lines - lines
          /\ out_header' = TRUE
          /\ IF skip_lines' > 0
             THEN pc' = "exit" /\ exit_code' = 1
             ELSE pc' = "loop" /\ exit_code' = exit_code
    /\ UNCHANGED <<summary, inputVars, preprocVars, runVars, histVars>>

\* "Skip the first two lines of input file": lines is the number of lines
\* fgets can deliver before the end of the file (2 stands for two or more);
\* each one decrements skip_lines.
SkipHeader ==
    /\ pc = "skip"
    /\ \E lines \in 0..2 :
          /\ skip_lines' = skip_lines - lines
          /\ IF skip_lines' > 0
             THEN pc' = "exit" /\ exit_code' = 1 /\ out_header' = out_header
             ELSE pc' = "loop" /\ exit_code' = exit_code /\ out_header' = TRUE
    /\ UNCHANGED <<summary, inputVars, preprocVars, runVars, histVars>>

\* Mutant of StepTypeName: no name for HOP.
StepTypeName_noHop(type, old) ==
    IF type = STATIC THEN "STATIONARY"
    ELSE IF type = WALK THEN "WALKING"
    ELSE IF type = RUN THEN "RUNNING"
    ELSE old

\* The class name main prints for the label type; old is what the pointer
\* held before (it is not assigned when no comparison matches).
StepTypeName(type, old) ==
    IF type = STATIC THEN "STATIONARY"
    ELSE IF type = WALK THEN "WALKING"
    ELSE IF type = RUN THEN "RUNNING"
    ELSE IF type = HOP THEN "HOPPING"
    ELSE old

\* Mutant of RunDue: the detector runs after every sample.
RunDue_always(ret_val) == ret_val >= 0

\* main runs step_algo_run when step_algo_preproc has returned 1.
RunDue(ret_val) == ret_val = 1

\* One iteration of the read loop: a data row with the unused columns ch is
\* read, pushed through step_algo_preproc and, when that returns 1,
\* step_algo_run.
ReadLine(ch) ==
    /\ pc = "loop"
    /\ NumSamples < MaxFrames * SAMP_BUFF_LEN
    /\ LET ts  == timestamp + SENSOR_SAMP_INTVL
           ary == InputAry(wave, moving, NumSamples)
           pre == step_algo_preproc(ts, ch.arx, ary, ch.arz, ch.grx, ch.gry, ch.grz)
       IN  /\ timestamp' = ts
           /\ line' = ch
           /\ lp_filter_y' = pre.lp_filter_y
           /\ AccBuff' = pre.AccBuff
           /\ count' = pre.count
           /\ run_step_algo' = pre.ret_val
           /\ recent' = Slide(recent, pre.ary_flt)
           /\ stream' = StreamStep(stream, pre.ary_flt, ts)
           /\ swing' = TrackSwing(swing, NumSamples, lp_filter_y.prev_prev_out,
                                  lp_filter_y.prev_out, pre.ary_flt)
           /\ IF RunDue(pre.ret_val)
              THEN LET r == StepAlgoRun(pre.AccBuff)
                   IN  /\ ll_filter_y' = r.ll_filter_y
                       /\ AccDer' = r.AccDer
                       /\ AccFilt' = r.AccFilt
                       /\ TimeStamps' = r.TimeStamps
                       /\ prevAccDer' = r.prevAccDer
                       /\ prev_amp_est' = r.prev_amp_est
                       /\ prev_freq_est' = r.prev_freq_est
                       /\ amp_est_hold' = r.amp_est_hold
                       /\ freq_est_hold' = r.freq_est_hold
                       /\ step_algo_output' = r.step_algo_output
                       /\ num_steps_walk' = r.num_steps_walk
                       /\ num_steps_run' = r.num_steps_run
                       /\ num_steps_hop' = r.num_steps_hop
                       /\ commits' = commits \o Stamp(r.commits, runs + 1)
                       /\ last' = r.locals
                       /\ runs' = runs + 1
                       /\ quiet' = TrackQuiet(quiet, r.locals)
              ELSE UNCHANGED <<runVars, commits, last, runs, quiet>>
           /\ step_type' = StepTypeName(step_algo_output'.step_type, step_type)
    /\ UNCHANGED <<mainVars, inputVars>>

\* A data row of a recording whose unused columns are all 0.
ProcessLine == ReadLine(ZeroRow)

\* A data row of a recording whose unused columns hold anything.
ProcessRow == \E ch \in Channels : ReadLine(ch)

\* fgets returns NULL: the summary is printed and the program exits with 0.
EndOfInput ==
    /\ pc = "loop"
    /\ pc' = "exit" /\ exit_code' = 0 /\ summary' = TRUE
    /\ UNCHANGED <<out_header, skip_lines, inputVars, preprocVars, runVars, histVars>>

\* The recorded wearer starts or stops moving (between two frames).
ChangeGait ==
    /\ pc = "loop"
    /\ count = 0
    /\ NumSamples > 0
    /\ NumSamples < MaxFrames * SAMP_BUFF_LEN
    /\ changes < MaxChanges
    /\ wave.amp > 0
    /\ moving' = ~moving
    /\ changes' = changes + 1
    /\ UNCHANGED <<wave, mainVars, preprocVars, runVars, histVars>>

Next == OpenFiles \/ SkipHeader \/ ProcessLine \/ EndOfInput \/ ChangeGait

Spec == Init /\ [][Next]_vars

\* The recordings of ChannelWaves with arbitrary unused columns.
InitChannels == Init /\ wave \in ChannelWaves

NextChannels == OpenFiles \/ SkipHeader \/ ProcessRow \/ EndOfInput \/ ChangeGait

SpecChannels == InitChannels /\ [][NextChannels]_vars

(* ============================== claims =============================== *)
StepCount == step_algo_output.step_count
StepType == step_algo_output.step_type

\* C1: after any sequence of samples the total step count equals the sum of
\* the walk, run and hop counters: no minimum is counted in the total by a
\* run that labels the batch STATIONARY.
C1_TotalIsSumOfClasses ==
    StepCount = num_steps_walk + num_steps_run + num_steps_hop

\* C1 witness: a run has just counted steps on top of earlier ones.
C1_Witness ==
    /\ runs > 1 /\ last.count_min_det > 0
    /\ StepCount > last.count_min_det

\* C2: committed maxima and minima strictly alternate over the whole stream,
\* and the search mode changes only at a commit: the detector searches a
\* minimum exactly when the last commit was a maximum.
C2_StrictAlternation ==
    /\ \A k \in 1..(Len(commits) - 1) : commits[k].kind # commits[k + 1].kind
    /\ MinSearchMode(step_algo_output.prev_max_ts, step_algo_output.prev_min_ts)
         <=> (Len(commits) > 0 /\ commits[Len(commits)].kind = "max")

\* C3: amplitude gating.  While the swing of the smoothed signal (largest
\* local peak minus smallest local trough) is below CLOSE_TO_ZERO, at either
\* offset, no minimum is committed and step_count stays 0.
C3_AmplitudeGating ==
    (/\ 2 * (IF moving THEN wave.amp ELSE 0) < CLOSE_TO_ZERO
     /\ changes = 0
     /\ swing.hasPeak /\ swing.hasTrough
     /\ Swing < CLOSE_TO_ZERO)
    => /\ StepCount = 0
       /\ \A k \in 1..Len(commits) : commits[k].kind # "min"

\* The class and the counter the table of the claim gives for (amp, freq),
\* amp in 1/1000 m/s^2 and freq in mHz.
C4_TableClass(amp, freq) ==
    CASE amp <= 5000 /\ freq <= 500 -> STATIC
      [] amp <= 5000 /\ freq > 500 -> WALK
      [] amp >= 15000 /\ freq >= 2200 -> RUN
      [] amp >= 15000 /\ freq < 2200 -> HOP
      [] amp > 5000 /\ amp < 15000 /\ freq >= 2200 -> RUN
      [] amp > 5000 /\ amp < 15000 /\ freq < 2200 -> WALK

\* C4: on every detector run the label is the table's class for the run's
\* (amp_est, freq_est) and count_min_det is added to that class's counter
\* and to no other (to none for STATIONARY); the label is written also when
\* count_min_det = 0.
C4_Classification ==
    [][runs' = runs + 1 =>
        LET cls == C4_TableClass(last'.amp_est, last'.freq_est)
            c   == last'.count_min_det
        IN  /\ step_algo_output'.step_type = cls
            /\ num_steps_walk' = num_steps_walk + (IF cls = WALK THEN c ELSE 0)
            /\ num_steps_run' = num_steps_run + (IF cls = RUN THEN c ELSE 0)
            /\ num_steps_hop' = num_steps_hop + (IF cls = HOP THEN c ELSE 0)]_vars

\* C4 witness: a run without a committed minimum has written the label RUNNING
\* of a medium amplitude, after runs that counted steps.
C4_Witness ==
    /\ runs > 0 /\ last.count_min_det = 0
    /\ last.amp_est > 5000 /\ last.amp_est < 15000 /\ last.freq_est >= 2200
    /\ StepType = RUN /\ num_steps_run > 0

\* C5: step_count and the three per-class counters never decrease from one
\* sample to the next.
C5_MonotonicCounters ==
    [][/\ step_algo_output'.step_count >= step_algo_output.step_count
       /\ num_steps_walk' >= num_steps_walk
       /\ num_steps_run' >= num_steps_run
       /\ num_steps_hop' >= num_steps_hop]_vars

\* C5 witness: counters have been raised by several runs, in two classes.
C5_Witness ==
    /\ StepCount >= 3
    /\ Cardinality({c \in {num_steps_walk, num_steps_run, num_steps_hop} : c > 0}) >= 2

\* C6: dead-time gating.  Any two committed maxima are more than
\* NO_DETECT_DUR_SEC apart, and so are any two committed minima, wherever
\* in the stream they were committed.
C6_DeadTime ==
    \A j \in 1..Len(commits) : \A k \in 1..(j - 1) :
        commits[k].kind = commits[j].kind
            => commits[j].ts - commits[k].ts > NO_DETECT_DUR_SEC

\* C6 witness: the input has a maximum every 1/6 s (less than the dead time)
\* and maxima were committed in two different frames.
C6_Witness ==
    /\ wave.step = 12 /\ moving /\ changes = 0
    /\ \E j \in 1..Len(commits) : \E k \in 1..(j - 1) :
          /\ commits[k].kind = "max" /\ commits[j].kind = "max"
          /\ commits[j].ts > commits[k].ts + SAMP_BUFF_LEN * SENSOR_SAMP_INTVL

\* C7: frame cadence.  step_algo_preproc returns 1 exactly on every
\* SAMP_BUFF_LEN-th sample; the fill count is the number of samples since
\* the last drain, within 0 .. SAMP_BUFF_LEN-1, and 0 right after a drain;
\* the detector has run once per full frame, and the frame it saw is the
\* SAMP_BUFF_LEN most recent smoothed samples with their timestamps, in
\* arrival order.
C7_FrameCadence ==
    /\ run_step_algo = (IF NumSamples > 0 /\ NumSamples % SAMP_BUFF_LEN = 0 THEN 1 ELSE 0)
    /\ count \in 0..(SAMP_BUFF_LEN - 1)
    /\ count = NumSamples % SAMP_BUFF_LEN
    /\ runs = NumSamples \div SAMP_BUFF_LEN
    /\ run_step_algo = 1 =>
         /\ count = 0
         /\ \A i \in 1..SAMP_BUFF_LEN :
              /\ AccBuff.y[i] = recent[i]
              /\ AccFilt[ll_TC_samples + i] = recent[i]
              /\ AccBuff.ts[i] = (NumSamples - SAMP_BUFF_LEN + i) * SENSOR_SAMP_INTVL
              /\ TimeStamps[ll_TC_samples + i] = AccBuff.ts[i]

\* C7 witness: the third frame has just been drained.
C7_Witness ==
    /\ run_step_algo = 1 /\ NumSamples = 3 * SAMP_BUFF_LEN /\ runs = 3
    /\ recent[1] # recent[SAMP_BUFF_LEN]

\* C8: hold-counter aging.  After a run with a committed minimum its
\* amplitude estimate is reused unchanged by the next BUFF_FACTOR runs
\* without a minimum and is 0 from the following such run on; likewise the
\* frequency estimate over runs without any committed extremum.  Neither
\* hold counter is above BUFF_FACTOR at the end of a run.
C8_HoldAging ==
    /\ amp_est_hold <= BUFF_FACTOR /\ freq_est_hold <= BUFF_FACTOR
    /\ (quiet.hadMin /\ quiet.noMin \in 1..BUFF_FACTOR) => prev_amp_est = quiet.heldAmp
    /\ (quiet.hadMin /\ quiet.noMin > BUFF_FACTOR) => prev_amp_est = 0
    /\ (quiet.hadExt /\ quiet.noExt \in 1..BUFF_FACTOR) => prev_freq_est = quiet.heldFreq
    /\ (quiet.hadExt /\ quiet.noExt > BUFF_FACTOR) => prev_freq_est = 0

\* C8 witness: an amplitude estimate was held for two runs and then dropped,
\* and a later run without a minimum found it still 0.
C8_Witness ==
    /\ quiet.hadMin /\ quiet.noMin = BUFF_FACTOR + 2
    /\ quiet.heldAmp > 0 /\ prev_amp_est = 0
    /\ quiet.hadExt /\ quiet.noExt > BUFF_FACTOR /\ quiet.heldFreq > 0

\* C9: quiet input ages to STATIONARY.  From the third consecutive run
\* without a committed extremum on the label is STATIONARY, until a run
\* commits an extremum; and no run without a committed extremum changes a
\* counter.
C9_QuietAgesToStationary ==
    /\ [](quiet.noExt >= 3 => step_algo_output.step_type = STATIC)
    /\ [][(runs' = runs + 1 /\ last'.count_max_det = 0 /\ last'.count_min_det = 0)
            => /\ step_algo_output'.step_count = step_algo_output.step_count
               /\ UNCHANGED <<num_steps_walk, num_steps_run, num_steps_hop>>]_vars

\* C9 witness: steps were counted, then three runs committed nothing and the
\* label, which was not STATIONARY before them, is STATIONARY.
C9_Witness ==
    /\ quiet.noExt = 3 /\ quiet.hadExt /\ quiet.heldFreq > SLOW_FREQ
    /\ StepCount > 0 /\ StepType = STATIC

\* The input of scenario 6: 9.81 + 0.5 sin(2 pi 1.5 t), from the first row on.
C10_Scenario ==
    /\ wave = [offset |-> 9810, amp |-> 500, step |-> 3]
    /\ moving /\ changes = 0

\* C10: the small-swing scenario (9.81 + 0.5 sin at 1.5 Hz): step_count stays
\* 0 and, once the hold counters have aged out (the label is STATIONARY after
\* BUFF_FACTOR + 1 runs or more), the label remains STATIONARY.
C10_SmallSwingSettles ==
    /\ [](C10_Scenario => step_algo_output.step_count = 0)
    /\ [][(C10_Scenario /\ runs >= BUFF_FACTOR + 1
             /\ step_algo_output.step_type = STATIC)
           => step_algo_output'.step_type = STATIC]_vars

\* The input of scenario 2: 9.81 + 10 sin(2 pi 1.5 t), from the first row on.
C11_Scenario ==
    /\ wave = [offset |-> 9810, amp |-> 10000, step |-> 3]
    /\ moving /\ changes = 0

\* C11 as stated: the walking tone (swing about 20 at 1.5 Hz) is labelled
\* WALKING once steps are counted, every step is in the walk counter, and the
\* run and hop counters stay 0.
C11_WalkingToneIsWalk ==
    /\ C11_Scenario => (num_steps_run = 0 /\ num_steps_hop = 0
                           /\ num_steps_walk = StepCount)
    /\ (C11_Scenario /\ StepCount > 0) => StepType = WALK

\* C11 amended: the same tone has amp_est >= LARGE_AMP and freq_est <
\* FAST_FREQ in every run that commits a minimum, so it is labelled HOPPING
\* once steps are counted, every step is in the hop counter, and the walk
\* and run counters stay 0.
C11_WalkingToneIsHop ==
    /\ C11_Scenario => (num_steps_walk = 0 /\ num_steps_run = 0
                           /\ num_steps_hop = StepCount)
    /\ (C11_Scenario /\ StepCount > 0) => StepType = HOP
    /\ (C11_Scenario /\ runs > 0 /\ last.count_min_det > 0)
          => (last.amp_est >= LARGE_AMP /\ last.freq_est < FAST_FREQ
              /\ last.freq_est > SLOW_FREQ)

\* C11 witness: the tone has run for several frames and steps were counted.
C11_Witness ==
    /\ C11_Scenario /\ runs >= 4 /\ StepCount >= 4
    /\ StepType = HOP /\ num_steps_hop = StepCount

\* The outputs and the carried state after the next row, had its unused
\* columns been ch (timestamp and ary as in the recording).
C12_After(ch) ==
    LET ts  == timestamp + SENSOR_SAMP_INTVL
        ary == InputAry(wave, moving, NumSamples)
        pre == step_algo_preproc(ts, ch.arx, ary, ch.arz, ch.grx, ch.gry, ch.grz)
    IN  IF pre.ret_val = 1
        THEN LET r == StepAlgoRun(pre.AccBuff)
             IN  <<r.step_algo_output, r.num_steps_walk, r.num_steps_run,
                   r.num_steps_hop, pre.lp_filter_y, pre.AccBuff, pre.count>>
        ELSE <<step_algo_output, num_steps_walk, num_steps_run,
               num_steps_hop, pre.lp_filter_y, pre.AccBuff, pre.count>>

\* C12: arx, arz, grx, gry and grz do not influence the result. From equal
\* states, rows that agree on (timestamp, ary) lead to equal step_count, label,
\* per-class counters and carried state whatever their other columns are; by
\* induction from the common initial state two runs that differ only in those
\* columns agree after every sample.
C12_UnusedChannels ==
    [][timestamp' # timestamp
         => \A ch \in Channels :
              <<step_algo_output', num_steps_walk', num_steps_run',
                num_steps_hop', lp_filter_y', AccBuff', count'>> = C12_After(ch)]_vars

\* C12 witness: a frame was just completed by a row whose unused columns are
\* not 0, and steps have been counted.
C12_Witness ==
    /\ line.arx # 0 /\ line.grx # 0 /\ run_step_algo = 1 /\ StepCount > 0

\* C13: a run that ends with header lines still to skip (fewer than two were
\* read) exits with code 1, has written no output header, pushed no sample
\* and printed no summary; a run that read both header lines wrote the
\* header, and when it ends it has printed the summary and exits with code 0,
\* which happens only when fgets finds no further line.
C13_HeaderHandling ==
    /\ (pc = "exit" /\ skip_lines > 0)
          => /\ exit_code = 1 /\ ~out_header /\ ~summary
             /\ timestamp = 0 /\ count = 0 /\ runs = 0
             /\ lp_filter_y = FilterInit
    /\ (pc = "exit" /\ skip_lines = 0)
          => (exit_code = 0 /\ out_header /\ summary)
    /\ (pc = "loop") => (skip_lines = 0 /\ out_header /\ exit_code = -1 /\ ~summary)
    /\ (timestamp > 0) => skip_lines = 0

\* C13 witness: the input had exactly one line; the program has exited.
C13_Witness ==
    /\ pc = "exit" /\ skip_lines = 1 /\ exit_code = 1

\* Timestamp of the sample at frame index i of run n, shifted back by lag
\* samples.
C14_SampleTs(n, i, lag) == ((n - 1) * SAMP_BUFF_LEN + i + 1 - lag) * SENSOR_SAMP_INTVL

\* C14 as stated: an extremum committed at frame index i has the timestamp
\* and the value of the current frame's smoothed sample at index i
\* (s_ext[K + i], ts_ext[K + i]).
C14_AlignedWithFrame ==
    /\ \A k \in 1..Len(commits) :
          commits[k].ts = C14_SampleTs(commits[k].run, commits[k].i, 0)
    /\ run_step_algo = 1 =>
          \A k \in 1..Len(commits) :
             commits[k].run = runs => commits[k].val = recent[commits[k].i + 1]

\* The commits of the run just finished are those of cs beyond before.
C14_NewCommits(before, cs) == { k \in 1..Len(cs) : k > before }

\* C14 amended: an extremum committed at frame index i has the timestamp and
\* the value of the smoothed sample ll_TC_samples samples before index i
\* (s_ext[i], ts_ext[i]): a sample of the current frame when
\* i >= ll_TC_samples, else one of the tail carried from the previous frame,
\* which holds that frame's last ll_TC_samples samples.
C14_LaggedByTC ==
    /\ [](/\ \A k \in 1..Len(commits) :
                commits[k].ts = C14_SampleTs(commits[k].run, commits[k].i, ll_TC_samples)
          /\ run_step_algo = 1 =>
                /\ \A k \in 1..Len(commits) :
                      (commits[k].run = runs /\ commits[k].i >= ll_TC_samples)
                         => commits[k].val = recent[commits[k].i - ll_TC_samples + 1]
                /\ \A j \in 1..ll_TC_samples :
                      /\ AccFilt[j] = recent[SAMP_BUFF_LEN - ll_TC_samples + j]
                      /\ TimeStamps[j] = C14_SampleTs(runs, j - 1, ll_TC_samples - SAMP_BUFF_LEN))
    /\ [][runs' = runs + 1
            => \A k \in C14_NewCommits(Len(commits), commits') :
                  commits'[k].i < ll_TC_samples
                     => /\ commits'[k].val = AccFilt[commits'[k].i + 1]
                        /\ commits'[k].ts = TimeStamps[commits'[k].i + 1]]_vars

\* C14 witness: extrema were committed at an index below ll_TC_samples (read
\* from the carried tail) and at one above it, the latter in the run just
\* finished.
C14_Witness ==
    /\ run_step_algo = 1 /\ Len(commits) >= 2
    /\ \E k \in 1..Len(commits) : commits[k].i < ll_TC_samples
    /\ \E k \in 1..Len(commits) :
          commits[k].run = runs /\ commits[k].i >= ll_TC_samples

\* C15: batching is transparent. At every frame boundary the committed
\* extrema (kind, value, timestamp), step_count and the carried detector
\* state are those of the detector that scans the whole signal as one sliding
\* window with zero pre-history; between boundaries the frame-based
\* detector is behind by the extrema of the unfinished frame only.
C15_BatchingTransparent ==
    /\ count = 0 =>
          /\ Extrema(commits) = stream.commits
          /\ step_algo_output.step_count = stream.step_count
          /\ step_algo_output.prev_max = stream.prev_max
          /\ step_algo_output.prev_max_ts = stream.prev_max_ts
          /\ step_algo_output.prev_min = stream.prev_min
          /\ step_algo_output.prev_min_ts = stream.prev_min_ts
          /\ prevAccDer = stream.prevDer
          /\ ll_filter_y = stream.ll
    /\ Len(commits) <= Len(stream.commits)
    /\ \A k \in 1..Len(commits) : Extrema(commits)[k] = stream.commits[k]

\* C15 witness: after several frames with steps counted, an extremum was
\* committed from a zero crossing at the first index of a frame (between the
\* last sample of one frame and the first of the next), its value and
\* timestamp read from the carried tail.
C15_Witness ==
    /\ count = 0 /\ runs >= 3 /\ StepCount >= 2
    /\ \E k \in 1..Len(commits) : commits[k].i = 0 /\ commits[k].run >= 2
    /\ Extrema(commits) = stream.commits

\* C16: every value added to the period sum at a commit is above
\* NO_DETECT_DUR_SEC and at most MAX_TIME_PERIOD_SEC; so the average period
\* of a run that commits an extremum lies in the same range, its freq_est is
\* at least 1/1.5 Hz and below 1/0.2 Hz, which is above SLOW_FREQ, and the
\* label that run sets is not STATIONARY.
C16_PeriodBounded ==
    /\ \A k \in 1..Len(commits) :
          /\ commits[k].period > NO_DETECT_DUR_SEC
          /\ commits[k].period <= MAX_TIME_PERIOD_SEC
    /\ (runs > 0 /\ last.count_max_det + last.count_min_det > 0)
          => /\ last.avg_time_period > NO_DETECT_DUR_SEC * MILLI
             /\ last.avg_time_period <= MAX_TIME_PERIOD_SEC * MILLI
             /\ last.freq_est * MAX_TIME_PERIOD_SEC + MAX_TIME_PERIOD_SEC
                    > TICKS_PER_SEC * MILLI
             /\ last.freq_est * NO_DETECT_DUR_SEC < TICKS_PER_SEC * MILLI
             /\ last.freq_est > SLOW_FREQ
             /\ step_algo_output.step_type # STATIC

\* C16 witness: a commit contributed the clamped maximum, another less than
\* that, and the latest run committed an extremum.
C16_Witness ==
    /\ runs > 1 /\ last.count_max_det + last.count_min_det > 0
    /\ \E k \in 1..Len(commits) : commits[k].period = MAX_TIME_PERIOD_SEC
    /\ \E k \in 1..Len(commits) : commits[k].period < MAX_TIME_PERIOD_SEC
    /\ step_algo_output.step_type # STATIC

\* Every derivative sample of the frame is in the dead-band.
C17_DeadBand(der) ==
    \A j \in 1..SAMP_BUFF_LEN : der[j] >= -EPSILON /\ der[j] <= EPSILON

\* C17: a run in which every derivative sample lies in [-EPSILON, EPSILON]
\* commits nothing and leaves prev_max, prev_max_ts, prev_min, prev_min_ts,
\* step_count and the three class counters unchanged.
C17_EmptyFrame ==
    [][(runs' = runs + 1 /\ C17_DeadBand(AccDer'))
         => /\ commits' = commits
            /\ last'.count_max_det = 0 /\ last'.count_min_det = 0
            /\ step_algo_output'.prev_max = step_algo_output.prev_max
            /\ step_algo_output'.prev_max_ts = step_algo_output.prev_max_ts
            /\ step_algo_output'.prev_min = step_algo_output.prev_min
            /\ step_algo_output'.prev_min_ts = step_algo_output.prev_min_ts
            /\ step_algo_output'.step_count = step_algo_output.step_count
            /\ UNCHANGED <<num_steps_walk, num_steps_run, num_steps_hop>>]_vars

\* C17 witness: the run just finished saw a frame whose derivative is in the
\* dead-band throughout, after extrema had been committed and steps counted.
C17_Witness ==
    /\ run_step_algo = 1 /\ C17_DeadBand(AccDer)
    /\ Len(commits) > 0 /\ StepCount > 0

\* C18: a sample that does not complete a frame changes no output and no
\* detector state: step_count, label, the class counters, prev_max/prev_min
\* and their timestamps, the hold counters and carried estimates, the
\* derivative filter history and the detector's buffers are unchanged; the
\* frame buffer changes in the slot at index count only and the fill count
\* grows by one.  Before the first frame is complete step_count is 0 and the
\* label is STATIONARY.
C18_PartialFrame ==
    /\ [][(timestamp' # timestamp /\ run_step_algo' = 0)
            => /\ UNCHANGED runVars
               /\ count' = count + 1
               /\ \A j \in 1..SAMP_BUFF_LEN :
                     j # count + 1 => /\ AccBuff'.y[j] = AccBuff.y[j]
                                      /\ AccBuff'.ts[j] = AccBuff.ts[j]
               /\ AccBuff'.ts[count + 1] = timestamp'
               /\ UNCHANGED <<commits, runs>>]_vars
    /\ [](NumSamples < SAMP_BUFF_LEN
            => (step_algo_output.step_count = 0
                /\ step_algo_output.step_type = STATIC))

\* C18 witness: after steps were counted and labelled, a sample was stored in
\* the middle of a frame.
C18_Witness ==
    /\ run_step_algo = 0 /\ count = 20 /\ runs >= 2
    /\ StepCount > 0 /\ StepType # STATIC
    /\ AccBuff.ts[count] = timestamp

\* The name of each class.
C19_Names ==
    [t \in {STATIC, WALK, HOP, RUN} |->
        IF t = STATIC THEN "STATIONARY" ELSE IF t = WALK THEN "WALKING"
        ELSE IF t = HOP THEN "HOPPING" ELSE "RUNNING"]

\* C19: the label is always one of STATIC, WALK, HOP and RUN, and from the
\* first output row on the class-name string printed in the row has been
\* assigned and names the label.
C19_LabelDefined ==
    /\ step_algo_output.step_type \in {STATIC, WALK, HOP, RUN}
    /\ timestamp > 0 => /\ step_type # "indeterminate"
                        /\ step_type = C19_Names[step_algo_output.step_type]

\* C19 witness: rows were printed with the initial label and, after steps
\* were counted, with the name HOPPING.
C19_Witness ==
    /\ runs >= 2 /\ step_type = "HOPPING" /\ num_steps_hop > 0

\* C20: the aggregation never divides by zero. Every divisor a run uses is
\* positive: the sum of swings is divided by count_min_det only when that is
\* positive, the period sum by count_max_det + count_min_det only when that
\* is positive, and 1 by avg_time_period only when that is above EPSILON.
\* When a guard fails nothing is divided and the estimate (before the hold
\* test) is the one carried from the previous run.
C20_GuardedDivisions ==
    [][runs' = runs + 1
         => /\ \A k \in 1..Len(last'.divisors) : last'.divisors[k] > 0
            /\ last'.count_min_det > 0
                  => last'.divisors[1] = last'.count_min_det
            /\ last'.count_min_det = 0 => last'.amp_raw = prev_amp_est
            /\ last'.count_max_det + last'.count_min_det > 0
                  => /\ last'.avg_time_period > EPSILON
                     /\ last'.divisors[Len(last'.divisors)] = last'.avg_time_period
            /\ last'.count_max_det + last'.count_min_det = 0
                  => /\ last'.divisors = <<>>
                     /\ last'.avg_time_period = 0
                     /\ last'.freq_raw = prev_freq_est]_vars

\* C20 witness: the run just finished committed nothing, divided nothing,
\* and carried the estimates of the run before it.
C20_Witness ==
    /\ run_step_algo = 1 /\ runs >= 2
    /\ last.count_max_det = 0 /\ last.count_min_det = 0
    /\ last.divisors = <<>>
    /\ last.amp_raw > 0 /\ last.freq_raw > 0

\* The span sp of indices lies within a C array of len elements.
C21_Within(sp, len) == sp.lo >= 0 /\ sp.hi < len

\* C21: every buffer access is in bounds. The frame-buffer write index is
\* below SAMP_BUFF_LEN at every sample and the sample lands in that slot;
\* TC_samples is at most MAX_TC_SAMPLES and at most SAMP_BUFF_LEN, so in every
\* run the extended-window indices (writes at TC_samples + i, reads at i,
\* tail writes) are below SAMP_BUFF_LEN + MAX_TC_SAMPLES, the frame-buffer
\* indices (reads at i and at SAMP_BUFF_LEN - TC_samples + i) are in
\* [0, SAMP_BUFF_LEN), and so are the derivative buffer's.
C21_InBounds ==
    /\ [](/\ WriteIndex(count) >= 0
          /\ WriteIndex(count) < Len(AccBuff.y)
          /\ WriteIndex(count) < Len(AccBuff.ts)
          /\ Len(AccBuff.y) = SAMP_BUFF_LEN
          /\ Len(AccFilt) = SAMP_BUFF_LEN + MAX_TC_SAMPLES
          /\ Len(TimeStamps) = SAMP_BUFF_LEN + MAX_TC_SAMPLES
          /\ Len(AccDer) = SAMP_BUFF_LEN
          /\ ll_TC_samples <= MAX_TC_SAMPLES
          /\ ll_TC_samples <= SAMP_BUFF_LEN
          /\ runs > 0 =>
                /\ C21_Within(last.accessed.AccBuff, Len(AccBuff.y))
                /\ C21_Within(last.accessed.AccFilt, Len(AccFilt))
                /\ C21_Within(last.accessed.AccFilt, Len(TimeStamps))
                /\ C21_Within(last.accessed.AccDer, Len(AccDer)))
    /\ [][timestamp' # timestamp
            => /\ AccBuff'.ts[WriteIndex(count) + 1] = timestamp'
               /\ AccBuff'.y[WriteIndex(count) + 1] = lp_filter_y'.prev_out]_vars

\* C21 witness: the last slot of the frame buffer was written and the run
\* that followed used the extended window up to index
\* TC_samples + SAMP_BUFF_LEN - 1 and read the tail from the frame buffer's
\* last TC_samples slots.
C21_Witness ==
    /\ runs >= 2 /\ run_step_algo = 1 /\ count = 0
    /\ AccBuff.ts[SAMP_BUFF_LEN] = timestamp
    /\ last.accessed.AccFilt = [lo |-> 0, hi |-> ll_TC_samples + SAMP_BUFF_LEN - 1]
    /\ last.accessed.AccBuff = [lo |-> 0, hi |-> SAMP_BUFF_LEN - 1]
    /\ AccFilt[ll_TC_samples] = AccBuff.y[SAMP_BUFF_LEN]

====
